---------------------------- MODULE Spec2Model ----------------------------
(***************************************************************************)
(* A model of modules/irwin/AnalysisReport.py: the report entities         *)
(* (MoveReport, GameReport), the report builder (GameReport.new) and the   *)
(* aggregation engine (GameReportStore).                                   *)
(*                                                                         *)
(* Numbers.  Python ints are unbounded and are modelled by TLA+ integers.  *)
(* A probability or a winning-chances loss (a float in [0,1]) is modelled  *)
(* by an integer number of thousandths.  A fraction p handed to topGames   *)
(* is the pair <<numerator, denominator>>.  The results of np.average and  *)
(* np.std are kept exact: a value (a + b*sqrt(v)) / n is the record        *)
(* [a, b, v, n], and n = 0 stands for NaN (np.average of an empty list).   *)
(*                                                                         *)
(* A call's outcome is the record [status, exc, json, val]: status is      *)
(* "ok" or "raise", exc names the exception raised, json tells whether     *)
(* val went through json.dumps (a str) or is the Python object itself.     *)
(***************************************************************************)
EXTENDS Integers, Sequences, FiniteSets

VARIABLES
    gameReports,      \* GameReportStore.gameReports, the shared list
    call,             \* the store operation called last, with its arguments
    result,           \* its outcome
    lol,              \* the argument of the static zip* primitives
    lolCall,          \* the primitive called last, with lowerLimit
    lolResult,        \* its outcome
    analysedGame,     \* GameReport.new: the analysed game's analysedMoves
    gamePredictions,  \* GameReport.new: gamePredictions[0], two aligned arrays
    game,             \* the GameReport built by GameReport.new
    gameCall,         \* the GameReport method called last
    gameResult,       \* its outcome
    pc,               \* per caller thread: where it is in its call
    threadCall,       \* per caller thread: the operation it runs
    ret,              \* per caller thread: what its call returned
    sorter            \* the thread whose list.sort holds the list, or NoThread

storeVars == <<gameReports, call, result>>
lolVars == <<lol, lolCall, lolResult>>
gameVars == <<analysedGame, gamePredictions, game, gameCall, gameResult>>
threadVars == <<pc, threadCall, ret, sorter>>
vars == <<gameReports, call, result, lol, lolCall, lolResult, analysedGame,
          gamePredictions, game, gameCall, gameResult, pc, threadCall, ret,
          sorter>>

(***************************************************************************)
(* Bounds of the model.                                                    *)
(***************************************************************************)
MaxGames == 2        \* games in a collection
MaxMoves == 1        \* moves of a stored game
PDen == 4            \* topGames is tried with p = 0/PDen .. PDen/PDen
MaxSeqs == 2         \* sequences handed to the zip* primitives
MaxLen == 2          \* length of such a sequence
MaxLimit == 2        \* lowerLimit of stdBracket ranges over 0..MaxLimit
MaxPlies == 2        \* analysed moves / predictions handed to GameReport.new

(***************************************************************************)
(* Python values.                                                          *)
(***************************************************************************)
None == 0 - 1        \* an absent rank (trueRank() is >= 1 when present)

Ok(v) == [status |-> "ok", exc |-> "", json |-> FALSE, val |-> v]
Dumps(v) == [status |-> "ok", exc |-> "", json |-> TRUE, val |-> v]
Raise(e) == [status |-> "raise", exc |-> e, json |-> FALSE, val |-> << >>]
NoResult == [status |-> "none", exc |-> "", json |-> FALSE, val |-> << >>]

Min(a, b) == IF a <= b THEN a ELSE b
Max(a, b) == IF a >= b THEN a ELSE b

SeqsUpTo(S, n) == UNION {[1..k -> S] : k \in 0..n}

RECURSIVE SumSeq(_)
SumSeq(s) == IF s = << >> THEN 0 ELSE Head(s) + SumSeq(Tail(s))

RECURSIVE SumSquares(_)
SumSquares(s) == IF s = << >> THEN 0 ELSE Head(s) * Head(s) + SumSquares(Tail(s))

RECURSIVE MaxSeq(_)
MaxSeq(s) == IF Len(s) = 1 THEN s[1] ELSE Max(s[1], MaxSeq(Tail(s)))

RECURSIVE Concat(_)
Concat(ss) == IF ss = << >> THEN << >> ELSE Head(ss) \o Concat(Tail(ss))

Reverse(s) == [i \in 1..Len(s) |-> s[Len(s) + 1 - i]]

(***************************************************************************)
(* MoveReport and GameReport records of the stored collection.             *)
(***************************************************************************)
MoveReports ==
    { [activation |-> 5, rank |-> None, loss |-> 60],
      [activation |-> 100, rank |-> 2, loss |-> 40] }

GameActivations == {10, 50, 90, 100}

GameReports ==
    [activation : GameActivations, moves : SeqsUpTo(MoveReports, MaxMoves)]

(***************************************************************************)
(* GameReport methods.                                                     *)
(***************************************************************************)
GameActivationsOf(g) == [i \in 1..Len(g.moves) |-> g.moves[i].activation]

GameRanks(g, subNone) ==
    [i \in 1..Len(g.moves) |->
        IF g.moves[i].rank = None THEN subNone ELSE g.moves[i].rank]

GameLossesWrong(g) ==
    LET losses == [i \in 1..Len(g.moves) |-> g.moves[i].loss]
        n == Len(losses)
    IN  IF n = 0 THEN Raise("IndexError")
        ELSE IF losses[n] >= 50 THEN Ok([losses EXCEPT ![n] = 0])
        ELSE Ok(losses)

\* losses[-1] of an empty list raises IndexError
GameLosses(g) ==
    LET losses == [i \in 1..Len(g.moves) |-> g.moves[i].loss]
        n == Len(losses)
    IN  IF n = 0 THEN Raise("IndexError")
        ELSE IF losses[n] > 50 THEN Ok([losses EXCEPT ![n] = 0])
        ELSE Ok(losses)

(***************************************************************************)
(* list.sort(key=lambda obj: -obj.activation): a stable sort, descending   *)
(* by activation.                                                          *)
(***************************************************************************)
RECURSIVE InsertByActivation(_, _)
InsertByActivation(g, s) ==
    IF s = << >> THEN <<g>>
    ELSE IF Head(s).activation >= g.activation
         THEN <<Head(s)>> \o InsertByActivation(g, Tail(s))
         ELSE <<g>> \o s

RECURSIVE SortDesc(_)
SortDesc(s) ==
    IF s = << >> THEN << >>
    ELSE InsertByActivation(s[Len(s)], SortDesc(SubSeq(s, 1, Len(s) - 1)))

DefaultP == <<3, 20>>      \* p=0.15

InTopFractionStrict(i, p, n) == i * p[2] < p[1] * n

\* i <= p*len(gameReports), with p = p[1]/p[2] and i counted from 0
InTopFraction(i, p, n) == i * p[2] <= p[1] * n

KeepGameNoOutliers(i, g, p, n) == InTopFraction(i, p, n)

\* i <= p*len(self.gameReports) or gameReport.activation >= 90
KeepGame(i, g, p, n) == InTopFraction(i, p, n) \/ g.activation >= 90

\* the list comprehension of topGames over the sorted list
TopGames(sorted, p) ==
    LET n == Len(sorted)
        F[k \in 0..n] ==
            IF k = 0 THEN << >>
            ELSE IF KeepGame(k - 1, sorted[k], p, n)
                 THEN Append(F[k - 1], sorted[k])
                 ELSE F[k - 1]
    IN  F[n]

LongestGame(grs) ==
    IF Len(grs) = 0 THEN 0
    ELSE MaxSeq([i \in 1..Len(grs) |-> Len(grs[i].moves)])

\* gameReports = self.topGames() if top else self.gameReports
Selected(grs, top) == IF top THEN TopGames(SortDesc(grs), DefaultP) ELSE grs

\* self.gameReports after that line: topGames sorts it in place
AfterSelect(grs, top) == IF top THEN SortDesc(grs) ELSE grs

(***************************************************************************)
(* Exact arithmetic for np.average and np.std: the record [a, b, v, n] is  *)
(* the number (a + b*sqrt(v)) / n, with b in {-1, 0, 1}; n = 0 is NaN.     *)
(***************************************************************************)
FromInt(k) == [a |-> k, b |-> 0, v |-> 0, n |-> 1]

IsNaN(x) == x.n = 0

\* x >= k for an integer k (false of NaN, as every comparison with NaN)
NumGeq(x, k) ==
    LET d == x.n * k - x.a
    IN  /\ ~IsNaN(x)
        /\ CASE x.b = 0 -> 0 >= d
             [] x.b = 1 -> d <= 0 \/ x.v >= d * d
             [] OTHER -> d <= 0 /\ x.v <= d * d

\* np.average(b)
Average(b) == [a |-> SumSeq(b), b |-> 0, v |-> 0, n |-> Len(b)]

\* np.std(b), the population standard deviation sqrt(n*sum(x^2) - sum(x)^2) / n
Std(b) ==
    [a |-> 0, b |-> 1,
     v |-> Len(b) * SumSquares(b) - SumSeq(b) * SumSeq(b), n |-> Len(b)]

\* avg + std and avg - std of one column (both over the same n)
Plus(avg, std) == [a |-> avg.a, b |-> std.b, v |-> std.v, n |-> avg.n]
Minus(avg, std) == [a |-> avg.a, b |-> 0 - std.b, v |-> std.v, n |-> avg.n]

PyMaxIgnoringLimit(x, k) == x

\* Python's max(x, k): k when k > x, else x (so NaN stays NaN)
PyMax(x, k) == IF ~IsNaN(x) /\ ~NumGeq(x, k) THEN FromInt(k) ELSE x

(***************************************************************************)
(* The static primitives of GameReportStore.                               *)
(***************************************************************************)
Longest(l) == MaxSeq([k \in 1..Len(l) |-> Len(l[k])])

RECURSIVE ColumnTruthy(_, _)
ColumnTruthy(l, i) ==
    IF l = << >> THEN << >>
    ELSE (IF Len(Head(l)) >= i /\ Head(l)[i] # None /\ Head(l)[i] # 0
          THEN <<Head(l)[i]>> ELSE << >>) \o ColumnTruthy(Tail(l), i)

\* bins[i] after the loop of zipLOL (i counted from 1): for each l in order,
\* l[i] is appended when l is long enough and l[i] is not None; the
\* IndexError of a shorter l ends that l's comprehension after its own
\* elements were appended
RECURSIVE Column(_, _)
Column(l, i) ==
    IF l = << >> THEN << >>
    ELSE (IF Len(Head(l)) >= i /\ Head(l)[i] # None
          THEN <<Head(l)[i]>> ELSE << >>) \o Column(Tail(l), i)

\* max([]) raises ValueError
ZipLOL(l) ==
    IF Len(l) = 0 THEN Raise("ValueError")
    ELSE Ok([i \in 1..Longest(l) |-> Column(l, i)])

ZipAvgLOL(l) ==
    LET z == ZipLOL(l)
    IN  IF z.status = "raise" THEN z
        ELSE Ok([i \in 1..Len(z.val) |-> Average(z.val[i])])

ZipStdLOL(l) ==
    LET z == ZipLOL(l)
    IN  IF z.status = "raise" THEN z
        ELSE Ok([i \in 1..Len(z.val) |-> Std(z.val[i])])

StdBracket(l, lowerLimit) ==
    LET stds == ZipStdLOL(l)
        avgs == ZipAvgLOL(l)
    IN  IF stds.status = "raise" THEN stds
        ELSE Ok([top |-> [i \in 1..Len(avgs.val) |->
                             Plus(avgs.val[i], stds.val[i])],
                 bottom |-> [i \in 1..Len(avgs.val) |->
                             PyMax(Minus(avgs.val[i], stds.val[i]), lowerLimit)]])

\* json.dumps of a result that was computed without an exception
DumpsOf(r) == IF r.status = "raise" THEN r ELSE Dumps(r.val)

\* [sum([int(x in range(i,i+10)) for x in values]) for i in range(0,100,10)][::-1]
Binned(values) ==
    Reverse([k \in 1..10 |->
        Cardinality({j \in 1..Len(values) :
                        values[j] \in (10 * (k - 1))..(10 * (k - 1) + 9)})])

(***************************************************************************)
(* The methods of GameReportStore over the list grs.                       *)
(***************************************************************************)
StoreLosses(grs, top) ==
    LET sel == Selected(grs, top)
        per == [i \in 1..Len(sel) |-> GameLosses(sel[i])]
    IN  IF \E i \in 1..Len(sel) : per[i].status = "raise"
        THEN Raise("IndexError")
        ELSE Ok([i \in 1..Len(sel) |-> per[i].val])

StoreRanks(grs, subNone, top) ==
    LET sel == Selected(grs, top)
    IN  Ok([i \in 1..Len(sel) |-> GameRanks(sel[i], subNone)])

AverageLossByMove(grs, top) ==
    IF LongestGame(grs) = 0 THEN Ok(<< >>)
    ELSE LET l == StoreLosses(grs, top)
         IN  IF l.status = "raise" THEN l ELSE DumpsOf(ZipAvgLOL(l.val))

AverageRankByMove(grs, top) ==
    IF LongestGame(grs) = 0 THEN Ok(<< >>)
    ELSE DumpsOf(ZipAvgLOL(StoreRanks(grs, 6, top).val))

StdBracketLossByMove(grs, top) ==
    IF LongestGame(grs) = 0 THEN Ok(<< >>)
    ELSE LET l == StoreLosses(grs, top)
         IN  IF l.status = "raise" THEN l ELSE DumpsOf(StdBracket(l.val, 0))

StdBracketRankByMove(grs, top) ==
    IF LongestGame(grs) = 0 THEN Ok(<< >>)
    ELSE DumpsOf(StdBracket(StoreRanks(grs, 6, top).val, 1))

BinnedActivations(grs, top) ==
    LET sel == Selected(grs, top)
    IN  Dumps(Binned([i \in 1..Len(sel) |-> sel[i].activation]))

\* reduce(operator.concat, []) raises TypeError: no initial value is given
BinnedMoveActivations(grs, top) ==
    LET sel == Selected(grs, top)
    IN  IF Len(sel) = 0 THEN Raise("TypeError")
        ELSE Dumps(Binned(Concat([i \in 1..Len(sel) |-> GameActivationsOf(sel[i])])))

StoreActivations(grs, top) ==
    LET sel == Selected(grs, top)
    IN  Ok(Concat([i \in 1..Len(sel) |-> GameActivationsOf(sel[i])]))

\* the *ByMove methods return before topGames when longestGame() is 0
AfterByMove(grs, top) ==
    IF LongestGame(grs) = 0 THEN grs ELSE AfterSelect(grs, top)

(***************************************************************************)
(* The store: GameReportStore.new sorts the list it is given; then any     *)
(* method may be called on it.                                             *)
(***************************************************************************)
\* the values of p tried: below 0, in [0,1] and above 1
Fractions == {<<k, PDen>> : k \in (0 - 1)..(PDen + 1)}

Idle == [name |-> "idle", p |-> DefaultP, top |-> FALSE, subNone |-> None]

CallOf(name, p, top, subNone) ==
    [name |-> name, p |-> p, top |-> top, subNone |-> subNone]

StoreNew(input) == SortDesc(input)

NoGame == [built |-> FALSE, activation |-> 0, moves |-> << >>]

LolIdle ==
    /\ lol = << >>
    /\ lolCall = [name |-> "idle", lowerLimit |-> 0]
    /\ lolResult = NoResult

GameIdle ==
    /\ analysedGame = << >>
    /\ gamePredictions = [first |-> << >>, second |-> << >>]
    /\ game = NoGame
    /\ gameCall = [name |-> "idle", subNone |-> None]
    /\ gameResult = NoResult

NoThread == 0

ThreadsIdle ==
    /\ pc = << >>
    /\ threadCall = << >>
    /\ ret = << >>
    /\ sorter = NoThread

StoreInit ==
    /\ \E input \in SeqsUpTo(GameReports, MaxGames) :
           gameReports = StoreNew(input)
    /\ call = Idle
    /\ result = NoResult

Init == StoreInit /\ LolIdle /\ GameIdle /\ ThreadsIdle

StoreStep(c, grs, r) ==
    /\ call.name = "idle"
    /\ call' = c
    /\ gameReports' = grs
    /\ result' = r
    /\ UNCHANGED <<lolVars, gameVars, threadVars>>

CallTopGames ==
    \E p \in Fractions \cup {DefaultP} :
        StoreStep(CallOf("topGames", p, FALSE, None), SortDesc(gameReports),
                  Ok(TopGames(SortDesc(gameReports), p)))

CallLongestGame ==
    StoreStep(CallOf("longestGame", DefaultP, FALSE, None), gameReports,
              Ok(<<LongestGame(gameReports)>>))

CallLosses ==
    \E top \in BOOLEAN :
        StoreStep(CallOf("losses", DefaultP, top, None),
                  AfterSelect(gameReports, top), StoreLosses(gameReports, top))

CallRanks ==
    \E top \in BOOLEAN, subNone \in {None, 6} :
        StoreStep(CallOf("ranks", DefaultP, top, subNone),
                  AfterSelect(gameReports, top),
                  StoreRanks(gameReports, subNone, top))

CallAverageLossByMove ==
    \E top \in BOOLEAN :
        StoreStep(CallOf("averageLossByMove", DefaultP, top, None),
                  AfterByMove(gameReports, top),
                  AverageLossByMove(gameReports, top))

CallAverageRankByMove ==
    \E top \in BOOLEAN :
        StoreStep(CallOf("averageRankByMove", DefaultP, top, 6),
                  AfterByMove(gameReports, top),
                  AverageRankByMove(gameReports, top))

CallStdBracketLossByMove ==
    \E top \in BOOLEAN :
        StoreStep(CallOf("stdBracketLossByMove", DefaultP, top, None),
                  AfterByMove(gameReports, top),
                  StdBracketLossByMove(gameReports, top))

CallStdBracketRankByMove ==
    \E top \in BOOLEAN :
        StoreStep(CallOf("stdBracketRankByMove", DefaultP, top, 6),
                  AfterByMove(gameReports, top),
                  StdBracketRankByMove(gameReports, top))

CallBinnedActivations ==
    \E top \in BOOLEAN :
        StoreStep(CallOf("binnedActivations", DefaultP, top, None),
                  AfterSelect(gameReports, top),
                  BinnedActivations(gameReports, top))

CallBinnedMoveActivations ==
    \E top \in BOOLEAN :
        StoreStep(CallOf("binnedMoveActivations", DefaultP, top, None),
                  AfterSelect(gameReports, top),
                  BinnedMoveActivations(gameReports, top))

CallActivations ==
    \E top \in BOOLEAN :
        StoreStep(CallOf("activations", DefaultP, top, None),
                  AfterSelect(gameReports, top),
                  StoreActivations(gameReports, top))

\* the caller takes the result; the store is ready for the next call
Return ==
    /\ call.name # "idle"
    /\ call' = Idle
    /\ result' = NoResult
    /\ UNCHANGED <<gameReports, lolVars, gameVars, threadVars>>

Next ==
    \/ CallTopGames
    \/ CallLongestGame
    \/ CallLosses
    \/ CallRanks
    \/ CallAverageLossByMove
    \/ CallAverageRankByMove
    \/ CallStdBracketLossByMove
    \/ CallStdBracketRankByMove
    \/ CallBinnedActivations
    \/ CallBinnedMoveActivations
    \/ CallActivations
    \/ Return

Spec == Init /\ [][Next]_vars

(***************************************************************************)
(* The static primitives called on a list of sequences.                    *)
(***************************************************************************)
Elems == {None, 0, 4}

LolInit ==
    /\ lol \in SeqsUpTo(SeqsUpTo(Elems, MaxLen), MaxSeqs)
    /\ lolCall = [name |-> "idle", lowerLimit |-> 0]
    /\ lolResult = NoResult

StoreIdle ==
    /\ gameReports = << >>
    /\ call = Idle
    /\ result = NoResult

\* np.average and np.std need numbers: a None left in a sequence is dropped
\* by zipLOL before they see it
LolStep(name, lowerLimit, r) ==
    /\ lolCall.name = "idle"
    /\ lolCall' = [name |-> name, lowerLimit |-> lowerLimit]
    /\ lolResult' = r
    /\ UNCHANGED <<lol, storeVars, gameVars, threadVars>>

CallZipLOL == LolStep("zipLOL", 0, ZipLOL(lol))

CallZipAvgLOL == LolStep("zipAvgLOL", 0, ZipAvgLOL(lol))

CallZipStdLOL == LolStep("zipStdLOL", 0, ZipStdLOL(lol))

CallStdBracket ==
    \E lowerLimit \in 0..MaxLimit :
        LolStep("stdBracket", lowerLimit, StdBracket(lol, lowerLimit))

LolReturn ==
    /\ lolCall.name # "idle"
    /\ lolCall' = [name |-> "idle", lowerLimit |-> 0]
    /\ lolResult' = NoResult
    /\ UNCHANGED <<lol, storeVars, gameVars, threadVars>>

LolNext ==
    \/ CallZipLOL
    \/ CallZipAvgLOL
    \/ CallZipStdLOL
    \/ CallStdBracket
    \/ LolReturn

InitLOL == StoreIdle /\ LolInit /\ GameIdle /\ ThreadsIdle

SpecLOL == InitLOL /\ [][LolNext]_vars

(***************************************************************************)
(* The report builder and the methods of the GameReport it builds.         *)
(***************************************************************************)
\* int(x) of a float x = k/d: truncation towards zero
Trunc(k, d) == IF k >= 0 THEN k \div d ELSE 0 - ((0 - k) \div d)

\* what an analysed move answers: trueRank(), ambiguity(), and advantage()
\* and winningChancesLoss() in thousandths
AnalysedMoves ==
    { [rank |-> 1, ambiguity |-> 1, advantage |-> 0 - 15, wcl |-> 405],
      [rank |-> None, ambiguity |-> 3, advantage |-> 250, wcl |-> 509],
      [rank |-> 2, ambiguity |-> 2, advantage |-> 999, wcl |-> 609] }

\* a model output probability, in thousandths
Probabilities == {0, 1000}

\* int(50*(movePrediction[0][0]+movePrediction[1][0]))
MoveActivation(movePrediction) ==
    Trunc(50 * (movePrediction[1] + movePrediction[2]), 1000)

MoveReportNew(analysedMove, movePrediction) ==
    [activation |-> MoveActivation(movePrediction),
     rank |-> analysedMove.rank,
     ambiguity |-> analysedMove.ambiguity,
     advantage |-> Trunc(100 * analysedMove.advantage, 1000),
     loss |-> Trunc(100 * analysedMove.wcl, 1000)]

\* zip(a, b) stops at the shorter of the two
Zip(a, b) == [i \in 1..Min(Len(a), Len(b)) |-> <<a[i], b[i]>>]

\* list(zip(list(gamePredictions[1][0]), list(gamePredictions[2][0])))
MovePredictions(gp) == Zip(gp.first, gp.second)

GameReportNew(ag, gameActivation, gp) ==
    LET pairs == Zip(ag, MovePredictions(gp))
    IN  [built |-> TRUE, activation |-> gameActivation,
         moves |-> [i \in 1..Len(pairs) |->
                       MoveReportNew(pairs[i][1], pairs[i][2])]]

\* bins[int(move.activation/10)] += 1 over bins of length 10, then reversed
GameBinnedActivations(g) ==
    IF \E i \in 1..Len(g.moves) : Trunc(g.moves[i].activation, 10) > 9
    THEN Raise("IndexError")
    ELSE Ok(Reverse([k \in 1..10 |->
            Cardinality({i \in 1..Len(g.moves) :
                            Trunc(g.moves[i].activation, 10) = k - 1})]))

MoveNumbers(g) == [i \in 1..Len(g.moves) |-> i]

GameInit ==
    /\ analysedGame \in SeqsUpTo(AnalysedMoves, MaxPlies)
    /\ gamePredictions \in [first : SeqsUpTo(Probabilities, MaxPlies),
                            second : SeqsUpTo(Probabilities, MaxPlies)]
    /\ game = NoGame
    /\ gameCall = [name |-> "idle", subNone |-> None]
    /\ gameResult = NoResult

GameStep(name, subNone, g, r) ==
    /\ gameCall.name = "idle"
    /\ gameCall' = [name |-> name, subNone |-> subNone]
    /\ game' = g
    /\ gameResult' = r
    /\ UNCHANGED <<analysedGame, gamePredictions, storeVars, lolVars, threadVars>>

CallGameReportNew ==
    /\ ~game.built
    /\ \E gameActivation \in {10, 100} :
           GameStep("new", None,
                    GameReportNew(analysedGame, gameActivation, gamePredictions),
                    Ok(<< >>))

CallGameLosses ==
    /\ game.built
    /\ GameStep("losses", None, game, GameLosses(game))

CallGameRanks ==
    /\ game.built
    /\ \E subNone \in {None, 6} :
           GameStep("ranks", subNone, game, Ok(GameRanks(game, subNone)))

CallGameActivations ==
    /\ game.built
    /\ GameStep("activations", None, game, Ok(GameActivationsOf(game)))

CallGameBinnedActivations ==
    /\ game.built
    /\ GameStep("binnedActivations", None, game, GameBinnedActivations(game))

CallMoveNumbers ==
    /\ game.built
    /\ GameStep("moveNumbers", None, game, Ok(MoveNumbers(game)))

GameReturn ==
    /\ gameCall.name # "idle"
    /\ gameCall' = [name |-> "idle", subNone |-> None]
    /\ gameResult' = NoResult
    /\ UNCHANGED <<analysedGame, gamePredictions, game, storeVars, lolVars,
                   threadVars>>

GameNext ==
    \/ CallGameReportNew
    \/ CallGameLosses
    \/ CallGameRanks
    \/ CallGameActivations
    \/ CallGameBinnedActivations
    \/ CallMoveNumbers
    \/ GameReturn

InitGame == StoreIdle /\ LolIdle /\ GameInit /\ ThreadsIdle

SpecGame == InitGame /\ [][GameNext]_vars

(***************************************************************************)
(* Several caller threads over one GameReportStore.  list.sort with a key  *)
(* function empties the list, calls the key function on every element      *)
(* (Python code: the interpreter may switch threads there), sorts, and     *)
(* puts the elements back; in between, every reader finds the list empty.  *)
(* Each other statement of a method is taken as one step.                  *)
(***************************************************************************)
NumThreads == 2

Threads == 1..NumThreads

\* self.gameReports as a thread reads it
Visible == IF sorter = NoThread THEN gameReports ELSE << >>

ThreadInit ==
    /\ pc = [t \in Threads |-> "idle"]
    /\ threadCall = [t \in Threads |-> "none"]
    /\ ret = [t \in Threads |-> NoResult]
    /\ sorter = NoThread

\* topGames, line 38: the sort begins; a list found empty has no key to compute
BeginSort(t) ==
    /\ pc[t] = "idle"
    /\ threadCall' = [threadCall EXCEPT ![t] = "topGames"]
    /\ IF Len(Visible) = 0
       THEN /\ pc' = [pc EXCEPT ![t] = "enumerate"]
            /\ UNCHANGED sorter
       ELSE /\ pc' = [pc EXCEPT ![t] = "sorting"]
            /\ sorter' = t
    /\ UNCHANGED <<ret, storeVars, lolVars, gameVars>>

\* topGames, line 38: the sort ends and the sorted elements are put back
EndSort(t) ==
    /\ pc[t] = "sorting"
    /\ sorter = t
    /\ gameReports' = SortDesc(gameReports)
    /\ sorter' = NoThread
    /\ pc' = [pc EXCEPT ![t] = "enumerate"]
    /\ UNCHANGED <<threadCall, ret, call, result, lolVars, gameVars>>

\* topGames, lines 39-41
Enumerate(t) ==
    /\ pc[t] = "enumerate"
    /\ ret' = [ret EXCEPT ![t] = Ok(TopGames(Visible, DefaultP))]
    /\ pc' = [pc EXCEPT ![t] = "done"]
    /\ UNCHANGED <<threadCall, sorter, storeVars, lolVars, gameVars>>

ThreadLongestGame(t) ==
    /\ pc[t] = "idle"
    /\ threadCall' = [threadCall EXCEPT ![t] = "longestGame"]
    /\ ret' = [ret EXCEPT ![t] = Ok(<<LongestGame(Visible)>>)]
    /\ pc' = [pc EXCEPT ![t] = "done"]
    /\ UNCHANGED <<sorter, storeVars, lolVars, gameVars>>

ThreadReturn(t) ==
    /\ pc[t] = "done"
    /\ pc' = [pc EXCEPT ![t] = "idle"]
    /\ threadCall' = [threadCall EXCEPT ![t] = "none"]
    /\ ret' = [ret EXCEPT ![t] = NoResult]
    /\ UNCHANGED <<sorter, storeVars, lolVars, gameVars>>

ThreadNext ==
    \E t \in Threads :
        \/ BeginSort(t)
        \/ EndSort(t)
        \/ Enumerate(t)
        \/ ThreadLongestGame(t)
        \/ ThreadReturn(t)

InitThreads == StoreInit /\ LolIdle /\ GameIdle /\ ThreadInit

SpecThreads == InitThreads /\ [][ThreadNext]_vars

(***************************************************************************)
(* The properties.                                                         *)
(***************************************************************************)
\* the elements of s at the positions idx, in the order of s
Pick(s, idx) ==
    [j \in 1..Cardinality(idx) |->
        s[CHOOSE k \in idx : Cardinality({m \in idx : m <= k}) = j]]

InUnitInterval(p) == 0 <= p[1] /\ p[1] <= p[2]

CeilTimes(p, n) == (p[1] * n + p[2] - 1) \div p[2]

FloorTimes(p, n) == (p[1] * n) \div p[2]

IsSortedDesc(s) ==
    \A i \in 1..(Len(s) - 1) : s[i].activation >= s[i + 1].activation

Outliers(s) == {i \in 1..Len(s) : s[i].activation >= 90}

\* C1, as claimed: for p in [0,1], topGames(p) returns exactly the games at
\* the first ceil(p*N) positions of the collection sorted descending by
\* activation, and every game whose activation is >= 90; nothing for N = 0.
C1_TopGamesCeil ==
    (call.name = "topGames" /\ InUnitInterval(call.p)) =>
        /\ result.status = "ok"
        /\ result.val =
             Pick(gameReports,
                  {i \in 1..Len(gameReports) :
                      i <= CeilTimes(call.p, Len(gameReports))}
                  \cup Outliers(gameReports))

\* C1, amended: for p in [0,1], topGames(p) leaves the collection sorted
\* descending by activation and returns exactly the games at the positions
\* i (counted from 0) with i <= p*N, which are the first floor(p*N)+1 of them
\* (all N when that exceeds N), and every game whose activation is >= 90;
\* for N = 0 it returns the empty list.
C1_TopGamesInclusive ==
    (call.name = "topGames" /\ InUnitInterval(call.p)) =>
        /\ result.status = "ok"
        /\ IsSortedDesc(gameReports)
        /\ result.val =
             Pick(gameReports,
                  {i \in 1..Len(gameReports) :
                      i <= FloorTimes(call.p, Len(gameReports)) + 1}
                  \cup Outliers(gameReports))
        /\ (Len(gameReports) = 0 => result.val = << >>)

\* C1, witness: p = 1/2 of two games below 90 returned both of them, where
\* ceil(p*N) is 1
C1_Witness ==
    /\ call.name = "topGames"
    /\ call.p[1] * 2 = call.p[2]
    /\ Len(gameReports) = 2
    /\ gameReports[1].activation < 90
    /\ Len(result.val) = 2

\* C2: whatever p is, every game of the collection whose activation is >= 90
\* is in the result of topGames(p).
C2_OutliersAlwaysKept ==
    call.name = "topGames" =>
        /\ \A i \in Outliers(gameReports) :
               \E j \in 1..Len(result.val) : result.val[j] = gameReports[i]
        /\ Cardinality(Outliers(result.val)) = Cardinality(Outliers(gameReports))

\* C2, witness: with p below 0 no position qualifies, and two games of
\* activation >= 90 were both returned
C2_Witness ==
    /\ call.name = "topGames"
    /\ call.p[1] < 0
    /\ Len(gameReports) = 2
    /\ gameReports[2].activation >= 90
    /\ Len(result.val) = 2

\* C4, as claimed: with activations that are integers in [0,100], the
\* histogram of binnedActivations has exactly 10 entries that sum to the
\* number of games selected, and so has that of binnedMoveActivations over
\* the moves of the games selected, whenever it returns one.
C4_HistogramCountsAll ==
    /\ call.name = "binnedActivations" =>
           /\ result.status = "ok"
           /\ Len(result.val) = 10
           /\ SumSeq(result.val) = Len(Selected(gameReports, call.top))
    /\ (call.name = "binnedMoveActivations" /\ result.status = "ok") =>
           /\ Len(result.val) = 10
           /\ SumSeq(result.val) =
                  LET sel == Selected(gameReports, call.top)
                  IN  SumSeq([i \in 1..Len(sel) |-> Len(sel[i].moves)])

ByMoveMethods ==
    {"averageLossByMove", "averageRankByMove", "stdBracketLossByMove",
     "stdBracketRankByMove", "binnedMoveActivations"}

\* C5, as claimed: on an empty collection, or one whose longest game has no
\* move, each of the five by-move methods, with top false or true, returns
\* an empty result and raises nothing.
C5_DegenerateIsEmpty ==
    (call.name \in ByMoveMethods /\ LongestGame(gameReports) = 0) =>
        /\ result.status = "ok"
        /\ Len(result.val) = 0

WithoutZeroMoveGames(grs) == SelectSeq(grs, LAMBDA g : Len(g.moves) > 0)

\* C10, as claimed: on a collection that holds a game with moves and a game
\* with no move, averageLossByMove and stdBracketLossByMove return without
\* an error, and return what they return on the collection without its
\* zero-move games.
C10_ZeroMoveGameSkipped ==
    (/\ call.name \in {"averageLossByMove", "stdBracketLossByMove"}
     /\ \E i \in 1..Len(gameReports) : Len(gameReports[i].moves) > 0
     /\ \E i \in 1..Len(gameReports) : Len(gameReports[i].moves) = 0) =>
        /\ result.status = "ok"
        /\ result =
             IF call.name = "averageLossByMove"
             THEN AverageLossByMove(WithoutZeroMoveGames(gameReports), call.top)
             ELSE StdBracketLossByMove(WithoutZeroMoveGames(gameReports), call.top)

\* the values l[k][i] of the sequences l[k], k in idx, in the order of l
ValuesAt(l, i, idx) ==
    [j \in 1..Cardinality(idx) |->
        l[CHOOSE k \in idx : Cardinality({m \in idx : m <= k}) = j][i]]

IsLongest(l, n) ==
    /\ \A k \in 1..Len(l) : Len(l[k]) <= n
    /\ \E k \in 1..Len(l) : Len(l[k]) = n

\* C3, as claimed: for a non-empty list of sequences, whatever their
\* elements (absent ranks included), zipLOL returns as many columns as the
\* longest sequence is long, and column i holds exactly the element at index
\* i of each sequence longer than i, in the order of the sequences.
C3_ColumnsHoldEveryElement ==
    (lolCall.name = "zipLOL" /\ Len(lol) > 0) =>
        /\ lolResult.status = "ok"
        /\ IsLongest(lol, Len(lolResult.val))
        /\ \A i \in 1..Len(lolResult.val) :
               lolResult.val[i] =
                   ValuesAt(lol, i, {k \in 1..Len(lol) : Len(lol[k]) >= i})

\* C3, amended: for a non-empty list of sequences, zipLOL returns as many
\* columns as the longest sequence is long, and column i holds exactly the
\* element at index i of each sequence that is longer than i and whose
\* element at index i is not None, in the order of the sequences.
C3_ColumnsHoldPresentElements ==
    (lolCall.name = "zipLOL" /\ Len(lol) > 0) =>
        /\ lolResult.status = "ok"
        /\ IsLongest(lol, Len(lolResult.val))
        /\ \A i \in 1..Len(lolResult.val) :
               lolResult.val[i] =
                   ValuesAt(lol, i, {k \in 1..Len(lol) :
                                        Len(lol[k]) >= i /\ lol[k][i] # None})

\* C3, witness: a short sequence with a 0 and a longer one that starts with
\* None gave two columns of one value each
C3_Witness ==
    /\ lolCall.name = "zipLOL"
    /\ Len(lol) = 2
    /\ Len(lol[1]) = 1 /\ lol[1][1] = 0
    /\ Len(lol[2]) = 2 /\ lol[2][1] = None /\ lol[2][2] # None
    /\ lolResult.val = <<<<0>>, <<lol[2][2]>>>>

IsNumeric(l) == \A k \in 1..Len(l) : \A i \in 1..Len(l[k]) : l[k][i] # None

\* C9: for a non-empty list of numeric sequences and lowerLimit >= 0,
\* stdBracket returns a 'top' and a 'bottom' with one entry per column of
\* the transpose, and every entry of 'bottom' is >= lowerLimit.
C9_BottomNeverBelowLimit ==
    (lolCall.name = "stdBracket" /\ Len(lol) > 0 /\ IsNumeric(lol)) =>
        /\ lolResult.status = "ok"
        /\ IsLongest(lol, Len(lolResult.val.top))
        /\ IsLongest(lol, Len(lolResult.val.bottom))
        /\ \A i \in 1..Len(lolResult.val.bottom) :
               NumGeq(lolResult.val.bottom[i], lolCall.lowerLimit)

\* C9, witness: the column (0, 4) has mean 2 and deviation 2, so that
\* mean - deviation = 0 was raised to the lowerLimit 1
C9_Witness ==
    /\ lolCall.name = "stdBracket"
    /\ lolCall.lowerLimit = 1
    /\ lol = <<<<0>>, <<4>>>>
    /\ lolResult.val.bottom = <<FromInt(1)>>
    /\ lolResult.val.top = <<[a |-> 4, b |-> 1, v |-> 16, n |-> 2]>>

\* C6: for a game with at least one move, losses() returns the moves' loss
\* values in ply order, as many as there are moves, the last one replaced by
\* 0 exactly when it is > 50; the game's stored moves are as they were built.
C6_LastLossAbove50Zeroed ==
    (gameCall.name = "losses" /\ Len(game.moves) >= 1) =>
        LET n == Len(game.moves)
        IN  /\ gameResult.status = "ok"
            /\ Len(gameResult.val) = n
            /\ \A i \in 1..(n - 1) : gameResult.val[i] = game.moves[i].loss
            /\ gameResult.val[n] =
                   (IF game.moves[n].loss > 50 THEN 0 ELSE game.moves[n].loss)
            /\ game = GameReportNew(analysedGame, game.activation, gamePredictions)

\* C6, witness: losses (60, 60) came back as (60, 0)
C6_Witness ==
    /\ gameCall.name = "losses"
    /\ Len(game.moves) = 2
    /\ game.moves[1].loss = 60
    /\ game.moves[2].loss = 60
    /\ gameResult.val = <<60, 0>>

\* C8, as claimed: GameReport.new with a number of analysed moves different
\* from the number of move predictions fails with an error and never builds
\* a game with fewer moves than were analysed; with equal numbers, the game
\* has that many moves and moves[i] is built from analysed move i and
\* prediction i.
C8_MismatchFailsFast ==
    gameCall.name = "new" =>
        LET preds == MovePredictions(gamePredictions)
        IN  IF Len(analysedGame) # Len(preds)
            THEN gameResult.status = "raise" /\ ~game.built
            ELSE /\ Len(game.moves) = Len(analysedGame)
                 /\ \A i \in 1..Len(analysedGame) :
                        game.moves[i] = MoveReportNew(analysedGame[i], preds[i])

\* what a call returns when it runs alone on the collection
Alone(c) ==
    IF c = "topGames"
    THEN Ok(TopGames(SortDesc(gameReports), DefaultP))
    ELSE Ok(<<LongestGame(gameReports)>>)

\* C7, as claimed: under every interleaving of the steps of concurrent
\* callers over one store, each call returns what it returns when run alone
\* on that collection.
C7_ConcurrentCallsAgree ==
    \A t \in DOMAIN pc : pc[t] = "done" => ret[t] = Alone(threadCall[t])

============================================================================
